---- MODULE Spec2Model ----
(***************************************************************************)
(* Model of the custom-models service of MoneyPrinterTurbo:                *)
(*   app/services/custom_models.py     CustomModelManager and the two      *)
(*                                     content-generation functions        *)
(*   app/controllers/v1/custom_models.py   the REST controller             *)
(*   demo_custom_models.py             the client requests of the demo     *)
(*                                                                         *)
(* A Python str is modelled as a sequence of tokens.  For subjects, terms  *)
(* and keywords a token is a word or the single blank " "; Chars gives the *)
(* characters of a token, so that `k in s` is a real substring test.       *)
(* A model id is the sequence of its "/"-separated segments.               *)
(***************************************************************************)
EXTENDS Integers, Sequences, FiniteSets, TLC

VARIABLES
    available,       \* services.CUSTOM_MODELS_AVAILABLE: torch/transformers import
    model_manager,   \* services.model_manager: "manager" or "None"
    ctrl_available,  \* controllers.CUSTOM_MODELS_AVAILABLE
    model_configs,   \* CustomModelManager.model_configs
    loaded_models,   \* CustomModelManager.loaded_models: model id -> pipeline object
    constructed,     \* number of pipeline objects constructed so far
    file,            \* models/model_configs.json on disk
    response,        \* the HTTP response of the last request
    trace,           \* calls made on model_manager while serving the last request
    video_subject,   \* the video_subject a generate_*_custom call is made with
    result,          \* what that generate_*_custom call returned
    setup,           \* setup_custom_models.main: its arguments, position and files
    threads          \* worker threads inside CustomModelManager.load_model

vars == <<available, model_manager, ctrl_available, model_configs, loaded_models,
          constructed, file, response, trace, video_subject, result, setup, threads>>

managerVars == <<available, model_manager, ctrl_available, model_configs,
                 loaded_models, constructed, file>>

(***************************************************************************)
(* Bounds of the model.                                                    *)
(***************************************************************************)
MaxWords == 3          \* words in a generated video_subject
MaxPipelines == 2      \* pipeline objects constructed in one behaviour
MaxThreads == 2        \* worker threads serving requests at the same time

(***************************************************************************)
(* Python str helpers over token sequences.                                *)
(***************************************************************************)
BLANK == " "

\* str.lower() of one token: only the capitalised words of the vocabulary change
LowerTok(t) ==
    CASE t = "Cabin" -> "cabin"
      [] t = "Lakeside" -> "lakeside"
      [] t = "The" -> "the"
      [] OTHER -> t

Lower(s) == [i \in 1..Len(s) |-> LowerTok(s[i])]

\* the characters of a (lower-case) token
Chars(t) ==
    CASE t = "cabin" -> <<"c", "a", "b", "i", "n">>
      [] t = "woods" -> <<"w", "o", "o", "d", "s">>
      [] t = "forest" -> <<"f", "o", "r", "e", "s", "t">>
      [] t = "lake" -> <<"l", "a", "k", "e">>
      [] t = "lakeside" -> <<"l", "a", "k", "e", "s", "i", "d", "e">>
      [] t = "nature" -> <<"n", "a", "t", "u", "r", "e">>
      [] t = "outdoor" -> <<"o", "u", "t", "d", "o", "o", "r">>
      [] t = "the" -> <<"t", "h", "e">>
      [] t = "benefits" -> <<"b", "e", "n", "e", "f", "i", "t", "s">>
      [] t = "of" -> <<"o", "f">>
      [] t = "regular" -> <<"r", "e", "g", "u", "l", "a", "r">>
      [] t = "exercise" -> <<"e", "x", "e", "r", "c", "i", "s", "e">>
      [] t = BLANK -> <<" ">>
      [] OTHER -> <<t>>

RECURSIVE Flatten(_)
Flatten(s) == IF s = <<>> THEN <<>> ELSE Chars(Head(s)) \o Flatten(Tail(s))

\* Python `k in s` for strings: k occurs as a contiguous run of characters
Contains(s, k) ==
    LET cs == Flatten(s)
        ck == Flatten(k)
    IN \E i \in 0..(Len(cs) - Len(ck)) :
          \A j \in 1..Len(ck) : cs[i + j] = ck[j]

RECURSIVE LStrip(_)
LStrip(s) == IF s # <<>> /\ Head(s) = BLANK THEN LStrip(Tail(s)) ELSE s

RECURSIVE RStrip(_)
RStrip(s) ==
    IF s # <<>> /\ s[Len(s)] = BLANK THEN RStrip(SubSeq(s, 1, Len(s) - 1)) ELSE s

\* str.strip()
Strip(s) == RStrip(LStrip(s))

\* len(s.split()): the number of whitespace-separated words
SplitLen(s) == Cardinality({i \in 1..Len(s) : s[i] # BLANK})

\* list[:n] with Python's treatment of a negative or oversized n
PySlice(l, n) ==
    IF n >= 0
    THEN SubSeq(l, 1, IF n < Len(l) THEN n ELSE Len(l))
    ELSE SubSeq(l, 1, IF Len(l) + n > 0 THEN Len(l) + n ELSE 0)

\* s.startswith(p)
StartsWith(s, p) == Len(s) >= Len(p) /\ SubSeq(s, 1, Len(p)) = p

\* a one-word and a two-word string literal
W1(a) == <<a>>
W2(a, b) == <<a, BLANK, b>>

(***************************************************************************)
(* The fallback templates of generate_script_custom / generate_terms_custom*)
(***************************************************************************)
\* a paragraph of a template; the generic paragraphs embed video_subject
Paragraph(tpl, n, subject) == [tpl |-> tpl, n |-> n, subject |-> subject]

\* the branch generate_script_custom takes for video_subject
ScriptTemplateLakeFirst(subject) ==
    LET subject_lower == Lower(subject) IN
    IF Contains(subject_lower, W1("lake")) THEN "lake"
    ELSE IF Contains(subject_lower, W1("cabin"))
            /\ (Contains(subject_lower, W1("woods")) \/ Contains(subject_lower, W1("forest")))
    THEN "cabin"
    ELSE IF Contains(subject_lower, W1("nature")) \/ Contains(subject_lower, W1("forest"))
            \/ Contains(subject_lower, W1("woods"))
    THEN "nature"
    ELSE "generic"

ScriptTemplate(subject) ==
    LET subject_lower == Lower(subject) IN
    IF Contains(subject_lower, W1("cabin"))
       /\ (Contains(subject_lower, W1("woods")) \/ Contains(subject_lower, W1("forest")))
    THEN "cabin"
    ELSE IF Contains(subject_lower, W1("lake")) THEN "lake"
    ELSE IF Contains(subject_lower, W1("nature")) \/ Contains(subject_lower, W1("forest"))
            \/ Contains(subject_lower, W1("woods"))
    THEN "nature"
    ELSE "generic"

FallbackParagraphs(subject) ==
    LET tpl == ScriptTemplate(subject)
        embedded == IF tpl = "generic" THEN subject ELSE <<>>
    IN [n \in 1..3 |-> Paragraph(tpl, n, embedded)]

\* generate_script_custom: the requested number of paragraphs, joined.  The
\* function makes no call on model_manager.
GenerateScriptCustom(subject, paragraph_number) ==
    PySlice(FallbackParagraphs(subject), paragraph_number)

\* the branch generate_terms_custom takes for video_subject
TermsTemplate(subject) ==
    LET subject_lower == Lower(subject) IN
    IF Contains(subject_lower, W1("cabin"))
       /\ (Contains(subject_lower, W1("woods")) \/ Contains(subject_lower, W1("forest")))
    THEN "cabin"
    ELSE IF Contains(subject_lower, W1("lake")) THEN "lake"
    ELSE IF Contains(subject_lower, W1("nature")) \/ Contains(subject_lower, W1("forest"))
            \/ Contains(subject_lower, W1("woods"))
    THEN "nature"
    ELSE "generic"

CabinTerms ==
    << W2("rustic", "cabin"), W2("forest", "cabin"), W2("wooden", "cabin"),
       W2("mountain", "cabin"), W2("wilderness", "cabin"), W2("cozy", "cabin"),
       W2("log", "cabin"), W2("cabin", "interior"), W2("cabin", "exterior"),
       W2("cabin", "fireplace"), W2("forest", "path"), W2("woodland", "trail"),
       W2("tree", "canopy"), W2("forest", "floor"), W1("wildlife"),
       W2("bird", "watching"), W2("hiking", "trail"), W2("nature", "walk"),
       W2("forest", "stream"), W2("mountain", "view") >>

LakeTerms ==
    << W2("lake", "view"), W2("water", "reflection"), W2("serene", "lake"),
       W2("peaceful", "water"), W2("lake", "shore"), W2("water", "ripples"),
       W2("lake", "fishing"), W2("water", "activities"), W2("lake", "sunset"),
       W2("water", "wildlife"), W2("lake", "cabin"), W1("waterfront"),
       W2("lake", "house"), W2("water", "sports"), W2("lake", "nature") >>

NatureTerms ==
    << W2("forest", "path"), W2("woodland", "trail"), W2("tree", "canopy"),
       W2("forest", "floor"), W1("wildlife"), W2("bird", "watching"),
       W2("hiking", "trail"), W2("nature", "walk"), W2("forest", "stream"),
       W2("mountain", "view"), W2("outdoor", "adventure"), W2("nature", "exploration"),
       W2("forest", "wildlife"), W2("woodland", "scenery"), W2("nature", "photography") >>

GenericSpecificTerms ==
    << W1("outdoor"), W1("scenic"), W1("beautiful"), W1("peaceful"), W1("landscape"),
       W1("wilderness"), W1("adventure"), W1("exploration"), W1("serene"),
       W1("tranquil"), W1("natural"), W1("picturesque"), W1("stunning"),
       W1("breathtaking"), W1("majestic") >>

SpecificTerms(subject) ==
    LET tpl == TermsTemplate(subject) IN
    CASE tpl = "cabin" -> CabinTerms
      [] tpl = "lake" -> LakeTerms
      [] tpl = "nature" -> NatureTerms
      [] OTHER -> GenericSpecificTerms

GenericTerms ==
    << W1("nature"), W1("outdoor"), W1("scenic"), W1("beautiful"), W1("peaceful"),
       W1("landscape"), W1("forest"), W1("wilderness"), W1("adventure"),
       W1("exploration") >>

\* term not in [t.lower() for t in terms]
NotInLowered(term, terms) == \A i \in 1..Len(terms) : Lower(terms[i]) # term

\* for term in terms: if len(fallback_terms) < amount and term not in ...: append
RECURSIVE AddTerms(_, _, _)
AddTerms(fallback_terms, terms, amount) ==
    IF terms = <<>> THEN fallback_terms
    ELSE LET term == Head(terms)
             next == IF Len(fallback_terms) < amount /\ NotInLowered(term, fallback_terms)
                     THEN Append(fallback_terms, term)
                     ELSE fallback_terms
         IN AddTerms(next, Tail(terms), amount)

\* the "clean and limit" loop, with its break
RECURSIVE CleanTerms(_, _, _)
CleanTerms(terms, final_terms, amount) ==
    IF terms = <<>> THEN final_terms
    ELSE LET term == Lower(Strip(Head(terms)))
             next == IF term # <<>> /\ SplitLen(term) <= 3 /\ NotInLowered(term, final_terms)
                     THEN Append(final_terms, term)
                     ELSE final_terms
         IN IF Len(next) >= amount THEN next
            ELSE CleanTerms(Tail(terms), next, amount)

\* generate_terms_custom.  The function makes no call on model_manager.
GenerateTermsCustom(subject, amount) ==
    LET with_subject == <<Lower(subject)>>
        with_specific == AddTerms(with_subject, SpecificTerms(subject), amount)
        fallback_terms == AddTerms(with_specific, GenericTerms, amount)
        final_terms == CleanTerms(fallback_terms, <<>>, amount)
    IN PySlice(final_terms, amount)

(***************************************************************************)
(* Python values and their JSON text (json.dump / json.load).              *)
(***************************************************************************)
PyNone == <<"None">>
PyBool(b) == <<"bool", b>>
PyInt(n) == <<"int", n>>
PyFloat(tenths) == <<"float", tenths>>
PyStr(s) == <<"str", s>>

\* the JSON literal json.dump writes for a Python value
JsonLiteral(v) ==
    CASE v[1] = "None" -> <<"null">>
      [] v[1] = "bool" -> IF v[2] THEN <<"true">> ELSE <<"false">>
      [] v[1] = "int" -> <<"digits", v[2]>>
      [] v[1] = "float" -> <<"digits.digits", v[2]>>
      [] v[1] = "str" -> <<"quoted", v[2]>>

\* the Python value json.load builds from a JSON literal
JsonValue(j) ==
    CASE j[1] = "null" -> PyNone
      [] j[1] = "true" -> PyBool(TRUE)
      [] j[1] = "false" -> PyBool(FALSE)
      [] j[1] = "digits" -> PyInt(j[2])
      [] j[1] = "digits.digits" -> PyFloat(j[2])
      [] j[1] = "quoted" -> PyStr(j[2])

JsonDump(configs) ==
    [id \in DOMAIN configs |->
        [k \in DOMAIN configs[id] |-> JsonLiteral(configs[id][k])]]

JsonLoad(text) ==
    [id \in DOMAIN text |-> [k \in DOMAIN text[id] |-> JsonValue(text[id][k])]]

(***************************************************************************)
(* Model ids and configurations.                                           *)
(***************************************************************************)
GPT2 == <<"gpt2">>
DIALO_MEDIUM == <<"microsoft", "DialoGPT-medium">>
UNKNOWN_ID == <<"my-model">>

Config(name, description, temperature, pad_token_id) ==
    [name |-> PyStr(name), description |-> PyStr(description),
     max_length |-> PyInt(1000), temperature |-> PyFloat(temperature),
     do_sample |-> PyBool(TRUE), pad_token_id |-> pad_token_id]

\* _create_default_configs: default_configs
DefaultConfigs ==
    (GPT2 :> Config("GPT-2", "OpenAI's GPT-2 for text generation (RECOMMENDED)",
                    8, PyInt(50256)))
    @@ (<<"gpt2-medium">> :>
          Config("GPT-2 Medium", "Medium GPT-2 model for better text generation",
                 8, PyInt(50256)))
    @@ (DIALO_MEDIUM :>
          Config("DialoGPT Medium", "Microsoft's conversational AI model",
                 7, PyInt(50256)))
    @@ (<<"microsoft", "DialoGPT-large">> :>
          Config("DialoGPT Large", "Larger version of Microsoft's conversational AI",
                 7, PyNone))
    @@ (<<"facebook", "blenderbot-400M-distill">> :>
          Config("BlenderBot 400M", "Facebook's conversational AI model", 7, PyNone))
    @@ (<<"microsoft", "DialoGPT-small">> :>
          Config("DialoGPT Small", "Lightweight conversational AI model", 7, PyNone))
    @@ (<<"EleutherAI", "gpt-neo-125M">> :>
          Config("GPT-Neo 125M", "Small GPT-Neo model for text generation", 7, PyNone))
    @@ (<<"EleutherAI", "gpt-neo-1.3B">> :>
          Config("GPT-Neo 1.3B", "Medium-sized GPT-Neo model", 7, PyNone))

\* a ModelConfig body of POST /models/{model_id}/config, as config.dict()
ModelConfig ==
    [name |-> PyStr("Mine"), description |-> PyStr("tuned"),
     max_length |-> PyInt(500), temperature |-> PyFloat(7),
     do_sample |-> PyBool(TRUE), pad_token_id |-> PyNone]

NoConfigs == <<>>
NoModels == <<>>

(***************************************************************************)
(* models/model_configs.json and the manager's state.                      *)
(***************************************************************************)
FileAbsent == [state |-> "absent", text |-> <<>>]
FileCorrupt == [state |-> "corrupt", text |-> <<>>]
FileJson(text) == [state |-> "json", text |-> text]

\* what writing the file can do: succeed, fail in open() (nothing written),
\* or fail inside json.dump after open(.., 'w') truncated the file
IoOutcomes == {"ok", "open_fails", "dump_fails"}

Manager(configs, loaded, n, f) ==
    [model_configs |-> configs, loaded_models |-> loaded, constructed |-> n, file |-> f]

\* the outcome of a call: its return value, whether it raised, what the environment
\* did in it (the file write, the pipeline call; "not_called" when neither happened),
\* and the state it leaves
Outcome(ret, raised, env, m) == [ret |-> ret, raised |-> raised, env |-> env, m |-> m]

\* _save_model_configs: a failure is logged and swallowed
SaveModelConfigs(m, io) ==
    CASE io = "ok" -> [m EXCEPT !.file = FileJson(JsonDump(m.model_configs))]
      [] io = "open_fails" -> m
      [] io = "dump_fails" -> [m EXCEPT !.file = FileCorrupt]

\* _create_default_configs
CreateDefaultConfigs(m, io) ==
    SaveModelConfigs([m EXCEPT !.model_configs = DefaultConfigs], io)

\* _load_model_configs
LoadModelConfigs(m, io) ==
    IF m.file.state # "absent"
    THEN IF m.file.state = "json"
         THEN [m EXCEPT !.model_configs = JsonLoad(m.file.text)]
         ELSE [m EXCEPT !.model_configs = NoConfigs]
    ELSE CreateDefaultConfigs(m, io)

\* CustomModelManager.__init__ on the models directory holding file f
NewManager(f, n, io) == LoadModelConfigs(Manager(NoConfigs, NoModels, n, f), io)

\* add_model
AddModelNoSave(m, model_id, config, io) ==
    Outcome(PyNone, FALSE, io,
            [m EXCEPT !.model_configs = (model_id :> config) @@ m.model_configs])

AddModel(m, model_id, config, io) ==
    Outcome(PyNone, FALSE, io,
            SaveModelConfigs(
                [m EXCEPT !.model_configs = (model_id :> config) @@ m.model_configs], io))

\* config.get("name", model_id) and config.get("description", "")
NameOf(config, model_id) ==
    IF "name" \in DOMAIN config THEN config.name ELSE PyStr(model_id)
DescriptionOf(config) ==
    IF "description" \in DOMAIN config THEN config.description ELSE PyStr("")

\* get_available_models
GetAvailableModels(m) ==
    Outcome([id \in DOMAIN m.model_configs |->
                [id |-> id, name |-> NameOf(m.model_configs[id], id),
                 description |-> DescriptionOf(m.model_configs[id]),
                 loaded |-> id \in DOMAIN m.loaded_models]],
            FALSE, "not_called", m)

\* get_model_info
GetModelInfo(m, model_id) ==
    IF model_id \notin DOMAIN m.model_configs
    THEN Outcome([error |-> <<"Model not found">>], FALSE, "not_called", m)
    ELSE Outcome([id |-> model_id, name |-> NameOf(m.model_configs[model_id], model_id),
                  description |-> DescriptionOf(m.model_configs[model_id]),
                  loaded |-> model_id \in DOMAIN m.loaded_models,
                  config |-> m.model_configs[model_id]],
                 FALSE, "not_called", m)

\* load_model without the early return for a model that is already loaded
LoadModelAlwaysConstructs(m, model_id, lib) ==
    IF model_id \notin DOMAIN m.model_configs
    THEN Outcome(PyBool(FALSE), FALSE, "not_called", m)
    ELSE IF lib = "ok"
    THEN Outcome(PyBool(TRUE), FALSE, lib,
                 [m EXCEPT !.loaded_models = (model_id :> m.constructed + 1) @@ @,
                           !.constructed = @ + 1])
    ELSE Outcome(PyBool(FALSE), FALSE, lib, m)

\* load_model; lib is what from_pretrained / pipeline do: "ok" or "raises"
LoadModel(m, model_id, lib) ==
    IF model_id \in DOMAIN m.loaded_models THEN Outcome(PyBool(TRUE), FALSE, "not_called", m)
    ELSE IF model_id \notin DOMAIN m.model_configs
    THEN Outcome(PyBool(FALSE), FALSE, "not_called", m)
    ELSE IF lib = "ok"
    THEN Outcome(PyBool(TRUE), FALSE, lib,
                 [m EXCEPT !.loaded_models = (model_id :> m.constructed + 1) @@ @,
                           !.constructed = @ + 1])
    ELSE Outcome(PyBool(FALSE), FALSE, lib, m)

\* unload_model
UnloadModel(m, model_id) ==
    IF model_id \in DOMAIN m.loaded_models
    THEN Outcome(PyNone, FALSE, "not_called",
                 [m EXCEPT !.loaded_models =
                     [id \in DOMAIN m.loaded_models \ {model_id} |-> m.loaded_models[id]]])
    ELSE Outcome(PyNone, FALSE, "not_called", m)

\* what the pipeline object does when called with the prompt
PipeResults(prompt) ==
    { [kind |-> "raises", text |-> <<"CUDA out of memory">>],
      [kind |-> "empty_list", text |-> <<>>],
      [kind |-> "not_a_list", text |-> <<>>],
      [kind |-> "no_generated_text_key", text |-> <<>>],
      [kind |-> "list", text |-> prompt \o <<BLANK, "world", BLANK>>],
      [kind |-> "list", text |-> <<"Error:", BLANK, "oops">>] }

\* generate_text
GenerateTextNoTry(m, model_id, prompt, pipe) ==
    IF model_id \notin DOMAIN m.loaded_models
    THEN Outcome(<<"Error:", "Model">> \o model_id \o <<"not loaded">>, FALSE,
                 "not_called", m)
    ELSE CASE pipe.kind = "raises" -> Outcome(pipe.text, TRUE, pipe.kind, m)
           [] pipe.kind = "no_generated_text_key" ->
                  Outcome(<<"'generated_text'">>, TRUE, pipe.kind, m)
           [] pipe.kind = "list" ->
                  Outcome(IF StartsWith(pipe.text, prompt)
                          THEN Strip(SubSeq(pipe.text, Len(prompt) + 1, Len(pipe.text)))
                          ELSE pipe.text,
                          FALSE, pipe.kind, m)
           [] OTHER -> Outcome(<<"Error:", "No text generated">>, FALSE, pipe.kind, m)

GenerateText(m, model_id, prompt, pipe) ==
    IF model_id \notin DOMAIN m.loaded_models
    THEN Outcome(<<"Error:", "Model">> \o model_id \o <<"not loaded">>, FALSE,
                 "not_called", m)
    ELSE CASE pipe.kind = "raises" ->
                  Outcome(<<"Error:">> \o pipe.text, FALSE, pipe.kind, m)
           [] pipe.kind = "no_generated_text_key" ->
                  Outcome(<<"Error:", "'generated_text'">>, FALSE, pipe.kind, m)
           [] pipe.kind = "list" ->
                  Outcome(IF StartsWith(pipe.text, prompt)
                          THEN Strip(SubSeq(pipe.text, Len(prompt) + 1, Len(pipe.text)))
                          ELSE pipe.text,
                          FALSE, pipe.kind, m)
           [] OTHER -> Outcome(<<"Error:", "No text generated">>, FALSE, pipe.kind, m)

(***************************************************************************)
(* The controller: routing, request validation, handlers.                  *)
(***************************************************************************)
\* the state of the global manager object
Self == Manager(model_configs, loaded_models, constructed, file)

\* an entry of trace: a call on model_manager and how it ended
Call(fn, model_id, o) ==
    [fn |-> fn, model_id |-> model_id, ret |-> o.ret, raised |-> o.raised, env |-> o.env]

\* what a handler does: return a value, or raise
Return(data) ==
    [kind |-> "return", exc |-> "", status |-> 200, detail |-> <<>>, data |-> data]
HTTPException(status, detail) ==
    [kind |-> "raise", exc |-> "HTTPException", status |-> status, detail |-> detail,
     data |-> <<>>]
Raise(exc, message) ==
    [kind |-> "raise", exc |-> exc, status |-> 500, detail |-> message, data |-> <<>>]

\* str(e)
StrExc(e) ==
    IF e.exc = "HTTPException" THEN <<ToString(e.status), ":">> \o e.detail ELSE e.detail

\* try: ... except Exception as e: raise HTTPException(500, f"<prefix>: {str(e)}")
TryExcept(r, prefix) ==
    IF r.kind = "raise" THEN HTTPException(500, <<prefix>> \o StrExc(r)) ELSE r

\* the response the framework sends for what the handler did
Request(method, path, body) == [method |-> method, path |-> path, body |-> body]

Respond(request, endpoint, r) ==
    [request |-> request, endpoint |-> endpoint, status |-> r.status,
     detail |-> r.detail, data |-> r.data]

NoResponse == Respond(Request("", <<>>, <<>>), "none", Return(<<>>))

\* what serving a request comes to: the response, the manager calls, the manager state
Handled(r, calls, m) == [r |-> r, calls |-> calls, m |-> m]

\* model_manager.<attr> when model_manager is None
NoneTypeError(attr) ==
    Raise("AttributeError", <<"'NoneType' object has no attribute", attr>>)

\* check_custom_models_available
Unavailable ==
    HTTPException(503, <<"Custom models not available. Install dependencies">>)

\* the routes of the router, in order of declaration
PARAM == "{model_id}"
Routes ==
    << [method |-> "GET", pattern |-> <<"models">>, endpoint |-> "get_available_models"],
       [method |-> "GET", pattern |-> <<"models", PARAM>>, endpoint |-> "get_model_info"],
       [method |-> "POST", pattern |-> <<"models", PARAM, "load">>,
        endpoint |-> "load_model"],
       [method |-> "DELETE", pattern |-> <<"models", PARAM, "unload">>,
        endpoint |-> "unload_model"],
       [method |-> "POST", pattern |-> <<"models", PARAM, "config">>,
        endpoint |-> "update_model_config"],
       [method |-> "POST", pattern |-> <<"scripts">>, endpoint |-> "generate_video_script"],
       [method |-> "POST", pattern |-> <<"terms">>, endpoint |-> "generate_video_terms"],
       [method |-> "POST", pattern |-> <<"models", PARAM, "generate">>,
        endpoint |-> "generate_text"] >>

\* a path parameter matches exactly one segment
PathMatches(pattern, path) ==
    /\ Len(pattern) = Len(path)
    /\ \A i \in 1..Len(pattern) : pattern[i] = PARAM \/ pattern[i] = path[i]

\* the endpoint a request is routed to, "none" when no route matches
Resolve(method, path) ==
    LET hits == {i \in 1..Len(Routes) :
                    Routes[i].method = method /\ PathMatches(Routes[i].pattern, path)}
    IN IF hits = {} THEN "none"
       ELSE Routes[CHOOSE i \in hits : \A j \in hits : i <= j].endpoint

\* the value bound to {model_id}
PathParam(path) == <<path[2]>>

NotFound == HTTPException(404, <<"Not Found">>)
Unprocessable(field) == HTTPException(422, <<"field required", field>>)

\* what a manager call comes to inside the handler's try block
Propagate(o, r) == IF o.raised THEN Raise("Exception", o.ret) ELSE r

\* GET /models
HandleGetAvailableModels ==
    IF ~ctrl_available THEN Handled(Unavailable, <<>>, Self)
    ELSE IF model_manager = "None"
    THEN Handled(TryExcept(NoneTypeError("get_available_models"), "Failed to get models:"),
                 <<>>, Self)
    ELSE LET o == GetAvailableModels(Self)
         IN Handled(TryExcept(Propagate(o, Return(o.ret)), "Failed to get models:"),
                    <<Call("get_available_models", <<>>, o)>>, o.m)

\* GET /models/{model_id}
HandleGetModelInfo(model_id) ==
    IF ~ctrl_available THEN Handled(Unavailable, <<>>, Self)
    ELSE IF model_manager = "None"
    THEN Handled(TryExcept(NoneTypeError("get_model_info"), "Failed to get model info:"),
                 <<>>, Self)
    ELSE LET o == GetModelInfo(Self, model_id)
             r == IF "error" \in DOMAIN o.ret
                  THEN HTTPException(404, o.ret.error)
                  ELSE Return(o.ret)
         IN Handled(TryExcept(Propagate(o, r), "Failed to get model info:"),
                    <<Call("get_model_info", model_id, o)>>, o.m)

\* POST /models/{model_id}/load
HandleLoadModel(model_id, device, lib) ==
    IF ~ctrl_available THEN Handled(Unavailable, <<>>, Self)
    ELSE IF model_manager = "None"
    THEN Handled(TryExcept(NoneTypeError("load_model"), "Failed to load model:"),
                 <<>>, Self)
    ELSE LET o == LoadModel(Self, model_id, lib)
             r == IF o.ret = PyBool(TRUE)
                  THEN Return(<<"Model">> \o model_id \o <<"loaded successfully">>)
                  ELSE HTTPException(400, <<"Failed to load model">> \o model_id)
         IN Handled(TryExcept(Propagate(o, r), "Failed to load model:"),
                    <<Call("load_model", model_id, o)>>, o.m)

\* DELETE /models/{model_id}/unload
HandleUnloadModel(model_id) ==
    IF ~ctrl_available THEN Handled(Unavailable, <<>>, Self)
    ELSE IF model_manager = "None"
    THEN Handled(TryExcept(NoneTypeError("unload_model"), "Failed to unload model:"),
                 <<>>, Self)
    ELSE LET o == UnloadModel(Self, model_id)
             r == Return(<<"Model">> \o model_id \o <<"unloaded successfully">>)
         IN Handled(TryExcept(Propagate(o, r), "Failed to unload model:"),
                    <<Call("unload_model", model_id, o)>>, o.m)

\* POST /models/{model_id}/config
HandleUpdateModelConfig(model_id, config, io) ==
    IF ~ctrl_available THEN Handled(Unavailable, <<>>, Self)
    ELSE IF model_manager = "None"
    THEN Handled(TryExcept(NoneTypeError("add_model"), "Failed to update model config:"),
                 <<>>, Self)
    ELSE LET o == AddModel(Self, model_id, config, io)
             r == Return(<<"Configuration updated for model">> \o model_id)
         IN Handled(TryExcept(Propagate(o, r), "Failed to update model config:"),
                    <<Call("add_model", model_id, o)>>, o.m)

\* the first word of a paragraph of the script
FirstWord(paragraph) ==
    CASE paragraph.tpl = "cabin" -> <<"Nestled", "Surrounded", "Whether">>[paragraph.n]
      [] paragraph.tpl = "lake" -> <<"The", "This", "Whether">>[paragraph.n]
      [] paragraph.tpl = "nature" -> <<"Nature's", "The", "Exploring">>[paragraph.n]
      [] OTHER -> <<"Today", "The", "Understanding">>[paragraph.n]

\* POST /scripts
HandleGenerateVideoScript(body) ==
    IF ~ctrl_available THEN Handled(Unavailable, <<>>, Self)
    ELSE LET script == GenerateScriptCustom(body.video_subject, body.paragraph_number)
             r == IF script # <<>> /\ FirstWord(script[1]) = "Error:"
                  THEN HTTPException(400, <<"Error:">>)
                  ELSE Return(script)
         IN Handled(TryExcept(r, "Failed to generate script:"), <<>>, Self)

\* POST /terms
HandleGenerateVideoTerms(body) ==
    IF ~ctrl_available THEN Handled(Unavailable, <<>>, Self)
    ELSE LET terms == GenerateTermsCustom(body.video_subject, body.amount)
             r == IF terms # <<>> /\ StartsWith(terms[1], <<"Error:">>)
                  THEN HTTPException(400, terms[1])
                  ELSE Return(terms)
         IN Handled(TryExcept(r, "Failed to generate terms:"), <<>>, Self)

\* body.get("prompt", "")
PromptOf(body) == IF "prompt" \in DOMAIN body THEN body.prompt ELSE <<>>

\* POST /models/{model_id}/generate
HandleGenerateText(model_id, body, pipe) ==
    IF ~ctrl_available THEN Handled(Unavailable, <<>>, Self)
    ELSE LET prompt == PromptOf(body) IN
         IF prompt = <<>>
         THEN Handled(TryExcept(HTTPException(400, <<"Prompt is required">>),
                                "Failed to generate text:"), <<>>, Self)
         ELSE IF model_manager = "None"
         THEN Handled(TryExcept(NoneTypeError("generate_text"), "Failed to generate text:"),
                      <<>>, Self)
         ELSE LET o == GenerateText(Self, model_id, prompt, pipe)
                  r == IF StartsWith(o.ret, <<"Error:">>)
                       THEN HTTPException(400, o.ret)
                       ELSE Return(o.ret)
              IN Handled(TryExcept(Propagate(o, r), "Failed to generate text:"),
                         <<Call("generate_text", model_id, o)>>, o.m)

(***************************************************************************)
(* Module import: the services module, then the controller.                *)
(***************************************************************************)
\* importing app.services.custom_models: both of its try blocks catch the
\* ImportError, so the import itself never raises one
ServicesImport(avail, f, n, io) ==
    [raises_import_error |-> FALSE,
     CUSTOM_MODELS_AVAILABLE |-> avail,
     model_manager |-> IF avail THEN "manager" ELSE "None",
     m |-> IF avail THEN NewManager(f, n, io) ELSE Manager(NoConfigs, NoModels, n, f)]

\* the controller's CUSTOM_MODELS_AVAILABLE
ControllerImport(services) == ~services.raises_import_error

(***************************************************************************)
(* Inputs.                                                                 *)
(***************************************************************************)
ReqIds == {GPT2, DIALO_MEDIUM, UNKNOWN_ID}

\* the demo's load body, and a body that also carries the model id
DemoLoadBody == [device |-> "auto"]
LoadBodies(id) == {DemoLoadBody, [model_id |-> id, device |-> "auto"]}

\* bodies of POST /models/{model_id}/generate
GenerateBodies ==
    { [max_length |-> 200], [prompt |-> <<>>], [prompt |-> <<"hello">>, max_length |-> 200] }

\* the demo's test subject, "The benefits of regular exercise"
DemoSubject ==
    <<"The", BLANK, "benefits", BLANK, "of", BLANK, "regular", BLANK, "exercise">>

Vocabulary == {"Cabin", "woods", "forest", "Lakeside", "nature", "outdoor"}

\* words joined by single blanks
Join(ws) ==
    [i \in 1..(2 * Len(ws) - 1) |-> IF i % 2 = 1 THEN ws[(i + 1) \div 2] ELSE BLANK]

WordSeqs == UNION {[1..n -> Vocabulary] : n \in 1..MaxWords}

\* a single word with a blank before and after it
Padded == {<<BLANK, w, BLANK>> : w \in Vocabulary}

Subjects == {Join(ws) : ws \in WordSeqs} \cup Padded \cup {DemoSubject}

HttpSubjects == {DemoSubject, <<"Cabin", BLANK, "woods">>}

Amounts == 0..16
ParagraphNumbers == (0 - 1)..4

\* what a generate_*_custom call returned, with the template branch it took
Result(fn, model_id, n, template, value) ==
    [fn |-> fn, model_id |-> model_id, n |-> n, template |-> template, value |-> value]

NoResult == Result("none", <<>>, 0, "", <<>>)

ScriptResult(subject, n, model_id) ==
    Result("generate_script_custom", model_id, n, ScriptTemplate(subject),
           GenerateScriptCustom(subject, n))

TermsResult(subject, n, model_id) ==
    Result("generate_terms_custom", model_id, n, TermsTemplate(subject),
           GenerateTermsCustom(subject, n))

(***************************************************************************)
(* Worker threads inside CustomModelManager.load_model.  The synchronous   *)
(* endpoints run in the server's thread pool on the one global             *)
(* model_manager; load_model takes no lock, so its statements interleave.  *)
(***************************************************************************)
Threads == 1..MaxThreads

\* a worker thread: the statement of load_model it is at, its model_id, the
\* pipeline it constructed (pipe), what it returns, and whether its store
\* replaced a pipeline that was in loaded_models
Thread(pc, model_id, pipe, ret, replaced) ==
    [pc |-> pc, model_id |-> model_id, pipe |-> pipe, ret |-> ret, replaced |-> replaced]
IdleThread == Thread("idle", <<>>, 0, PyNone, FALSE)
NoThreads == [t \in Threads |-> IdleThread]

\* `if model_id in self.loaded_models`
AlreadyLoadedNever(loaded, model_id) == FALSE

AlreadyLoaded(loaded, model_id) == model_id \in DOMAIN loaded


(***************************************************************************)
(* setup_custom_models.py: the set-up script run from the project root.    *)
(***************************************************************************)
\* argparse's namespace for the three store_true flags
Args(download, config_only, skip_download) ==
    [download |-> download, config_only |-> config_only, skip_download |-> skip_download]

\* create_models_directory: the directories mkdir(exist_ok=True) leaves behind
ModelsDirectories ==
    {<<"models">>, <<"models", "text_generation">>, <<"models", "conversational">>,
     <<"models", "summarization">>}

CreateModelsDirectory(dirs) == dirs \cup ModelsDirectories

\* one entry of create_model_configs' default_configs
SetupConfig(name, description, use_case, size) ==
    [name |-> PyStr(name), description |-> PyStr(description),
     max_length |-> PyInt(1000), temperature |-> PyFloat(7),
     do_sample |-> PyBool(TRUE), pad_token_id |-> PyNone,
     use_case |-> PyStr(use_case), size |-> PyStr(size)]

\* create_model_configs: default_configs
SetupDefaultConfigs ==
    (<<"microsoft", "DialoGPT-small">> :>
        SetupConfig("DialoGPT Small", "Lightweight conversational AI model (117M parameters)",
                    "conversational", "~500MB"))
    @@ (DIALO_MEDIUM :>
        SetupConfig("DialoGPT Medium", "Medium conversational AI model (345M parameters)",
                    "conversational", "~1.4GB"))
    @@ (<<"microsoft", "DialoGPT-large">> :>
        SetupConfig("DialoGPT Large", "Large conversational AI model (774M parameters)",
                    "conversational", "~3.1GB"))
    @@ (<<"facebook", "blenderbot-400M-distill">> :>
        SetupConfig("BlenderBot 400M", "Facebook's conversational AI model (400M parameters)",
                    "conversational", "~1.6GB"))
    @@ (<<"EleutherAI", "gpt-neo-125M">> :>
        SetupConfig("GPT-Neo 125M", "Small GPT-Neo model for text generation (125M parameters)",
                    "text_generation", "~500MB"))
    @@ (<<"EleutherAI", "gpt-neo-1.3B">> :>
        SetupConfig("GPT-Neo 1.3B", "Medium-sized GPT-Neo model (1.3B parameters)",
                    "text_generation", "~5.2GB"))

\* create_model_configs: open(config_file, 'w') and json.dump, no try block
CreateModelConfigs == FileJson(JsonDump(SetupDefaultConfigs))

\* config.toml: whether it exists, and its lines, each a sequence of tokens
Toml(exists, lines) == [exists |-> exists, lines |-> lines]
TomlAbsent == Toml(FALSE, <<>>)
Section(name) == <<"[", name, "]">>
Setting(key, value) == <<key, " = ", value>>

\* update_config_toml: custom_section.split('\n') as it is read back
CustomSection ==
    << <<>>,
       <<"#", BLANK, "Custom Models (Local Hugging Face Models)">>,
       <<"#", BLANK, "Use local Hugging Face models without API limitations">>,
       <<"#", BLANK, "Popular models">>,
       Setting("custom_model_id", "microsoft/DialoGPT-medium"),
       <<"#", BLANK, "Device to run models on">>,
       Setting("custom_model_device", "auto"),
       <<>> >>

\* "custom_model_id" in content
HasCustomModelId(lines) ==
    \E i \in 1..Len(lines) : \E j \in 1..Len(lines[i]) : lines[i][j] = "custom_model_id"

\* the for loop of update_config_toml: the 0-based index of the first line
\* that starts a section other than [app], 0 when there is none
InsertIndex(lines) ==
    LET sections == {i \in 1..Len(lines) :
                        /\ StartsWith(lines[i], <<"[">>)
                        /\ ~StartsWith(lines[i], Section("app"))}
    IN IF sections = {} THEN 0
       ELSE (CHOOSE i \in sections : \A k \in sections : i <= k) - 1

\* update_config_toml
UpdateConfigToml(toml) ==
    IF ~toml.exists THEN toml
    ELSE IF ~HasCustomModelId(toml.lines)
    THEN LET insert_index == InsertIndex(toml.lines)
         IN Toml(TRUE, SubSeq(toml.lines, 1, insert_index) \o CustomSection
                       \o SubSeq(toml.lines, insert_index + 1, Len(toml.lines)))
    ELSE toml

\* download_popular_models: models_to_download after the sort by priority
ModelsToDownload ==
    << DIALO_MEDIUM, <<"microsoft", "DialoGPT-small">>,
       <<"facebook", "blenderbot-400M-distill">>, <<"EleutherAI", "gpt-neo-125M">> >>

\* what `from transformers import ...` can do in download_popular_models
ImportOutcomes == {"ok", "ImportError", "OSError"}

\* download_popular_models with the import doing imp and from_pretrained
\* failing for the models in failing: what it raises and the cache afterwards
DownloadPopularModels(cache, imp, failing) ==
    IF imp # "ok" THEN [raised |-> imp, cache |-> cache]
    ELSE [raised |-> "no",
          cache |-> cache \cup ({ModelsToDownload[i] : i \in 1..Len(ModelsToDownload)} \ failing)]

\* main: the condition guarding the download
ShouldDownload(args) ==
    args.download \/ (~args.config_only /\ ~args.skip_download)

\* the state of one run of main
Setup(args, pc, called, dirs, toml, cache) ==
    [args |-> args, pc |-> pc, called |-> called, dirs |-> dirs, toml |-> toml, cache |-> cache]
NoSetup == Setup(Args(FALSE, FALSE, FALSE), "not_run", <<>>, {}, TomlAbsent, {})

\* config.toml as the run finds it
Tomls ==
    { TomlAbsent,
      Toml(TRUE, << Section("app"), Setting("video_source", "pexels"),
                    Section("whisper"), Setting("model_size", "large-v3") >>),
      Toml(TRUE, << Setting("video_source", "pexels") >>),
      Toml(TRUE, << Section("app"), Setting("custom_model_id", "gpt2"),
                    Section("whisper") >>),
      Toml(TRUE, << Section("app"), <<"#", BLANK, "custom_model_id">>,
                    Section("azure"), Section("whisper") >>) }

\* whether the directories and the configuration file exist before the run
FilesBefore == {FileAbsent, FileJson(JsonDump(DefaultConfigs))}

MainCreateModelsDirectory ==
    /\ setup.pc = "create_models_directory"
    /\ setup' = [setup EXCEPT !.dirs = CreateModelsDirectory(@),
                              !.called = Append(@, "create_models_directory"),
                              !.pc = "create_model_configs"]
    /\ UNCHANGED <<managerVars, response, trace, video_subject, result, threads>>

MainCreateModelConfigs ==
    /\ setup.pc = "create_model_configs"
    /\ file' = CreateModelConfigs
    /\ setup' = [setup EXCEPT !.called = Append(@, "create_model_configs"),
                              !.pc = "update_config_toml"]
    /\ UNCHANGED <<available, model_manager, ctrl_available, model_configs, loaded_models,
                   constructed, response, trace, video_subject, result, threads>>

MainUpdateConfigToml ==
    /\ setup.pc = "update_config_toml"
    /\ setup' = [setup EXCEPT !.toml = UpdateConfigToml(@),
                              !.called = Append(@, "update_config_toml"),
                              !.pc = "download"]
    /\ UNCHANGED <<managerVars, response, trace, video_subject, result, threads>>

\* the if statement of main with its try block
MainDownload ==
    /\ setup.pc = "download"
    /\ IF ShouldDownload(setup.args)
       THEN \E imp \in ImportOutcomes,
               failing \in SUBSET {ModelsToDownload[i] : i \in 1..Len(ModelsToDownload)} :
                LET d == DownloadPopularModels(setup.cache, imp, failing)
                IN setup' = [setup EXCEPT
                                !.cache = d.cache,
                                !.called = Append(@, "download_popular_models"),
                                !.pc = IF d.raised = "ImportError" THEN "returned"
                                       ELSE "print_usage_instructions"]
       ELSE setup' = [setup EXCEPT !.pc = "print_usage_instructions"]
    /\ UNCHANGED <<managerVars, response, trace, video_subject, result, threads>>

MainPrintUsageInstructions ==
    /\ setup.pc = "print_usage_instructions"
    /\ setup' = [setup EXCEPT !.called = Append(@, "print_usage_instructions"),
                              !.pc = "returned"]
    /\ UNCHANGED <<managerVars, response, trace, video_subject, result, threads>>

InitSetup ==
    LET services == ServicesImport(FALSE, FileAbsent, 0, "ok")
    IN /\ available = services.CUSTOM_MODELS_AVAILABLE
       /\ model_manager = services.model_manager
       /\ ctrl_available = ControllerImport(services)
       /\ model_configs = services.m.model_configs
       /\ loaded_models = services.m.loaded_models
       /\ constructed = services.m.constructed
       /\ file \in FilesBefore
       /\ response = NoResponse
       /\ trace = <<>>
       /\ video_subject = <<>>
       /\ result = NoResult
       /\ \E download \in BOOLEAN, config_only \in BOOLEAN, skip_download \in BOOLEAN,
             toml \in Tomls, cached \in {{}, {DIALO_MEDIUM}} :
            setup = Setup(Args(download, config_only, skip_download),
                          "create_models_directory", <<>>,
                          IF file = FileAbsent THEN {} ELSE {<<"models">>}, toml, cached)
       /\ threads = NoThreads

NextSetup ==
    \/ MainCreateModelsDirectory
    \/ MainCreateModelConfigs
    \/ MainUpdateConfigToml
    \/ MainDownload
    \/ MainPrintUsageInstructions

SpecSetup == InitSetup /\ [][NextSetup]_vars

(***************************************************************************)
(* Actions: one per endpoint, plus the restart of the process.             *)
(***************************************************************************)
Serve(request, endpoint, handled) ==
    \E h \in {handled} :
        /\ h.m.constructed <= MaxPipelines
        /\ response' = Respond(request, endpoint, h.r)
        /\ trace' = h.calls
        /\ model_configs' = h.m.model_configs
        /\ loaded_models' = h.m.loaded_models
        /\ constructed' = h.m.constructed
        /\ file' = h.m.file
        /\ UNCHANGED <<available, model_manager, ctrl_available, setup, threads>>

Unrouted(request) == Serve(request, "none", Handled(NotFound, <<>>, Self))

Invalid(request, endpoint, field) ==
    Serve(request, endpoint, Handled(Unprocessable(field), <<>>, Self))

ReqGetAvailableModels ==
    LET req == Request("GET", <<"models">>, <<>>)
    IN /\ Serve(req, "get_available_models", HandleGetAvailableModels)
       /\ UNCHANGED <<video_subject, result>>

ReqGetModelInfo ==
    \E id \in ReqIds :
        LET path == <<"models">> \o id
            req == Request("GET", path, <<>>)
        IN /\ IF Resolve("GET", path) # "get_model_info" THEN Unrouted(req)
              ELSE Serve(req, "get_model_info", HandleGetModelInfo(PathParam(path)))
           /\ UNCHANGED <<video_subject, result>>

ReqLoadModel ==
    \E id \in ReqIds, lib \in {"ok", "raises"} : \E body \in LoadBodies(id) :
        LET path == <<"models">> \o id \o <<"load">>
            req == Request("POST", path, body)
        IN /\ IF Resolve("POST", path) # "load_model" THEN Unrouted(req)
              ELSE IF "model_id" \notin DOMAIN body
              THEN Invalid(req, "load_model", "model_id")
              ELSE Serve(req, "load_model",
                         HandleLoadModel(PathParam(path), body.device, lib))
           /\ UNCHANGED <<video_subject, result>>

ReqUnloadModel ==
    \E id \in ReqIds :
        LET path == <<"models">> \o id \o <<"unload">>
            req == Request("DELETE", path, <<>>)
        IN /\ IF Resolve("DELETE", path) # "unload_model" THEN Unrouted(req)
              ELSE Serve(req, "unload_model", HandleUnloadModel(PathParam(path)))
           /\ UNCHANGED <<video_subject, result>>

ReqUpdateModelConfig ==
    \E id \in ReqIds, io \in IoOutcomes :
        LET path == <<"models">> \o id \o <<"config">>
            req == Request("POST", path, ModelConfig)
        IN /\ IF Resolve("POST", path) # "update_model_config" THEN Unrouted(req)
              ELSE Serve(req, "update_model_config",
                         HandleUpdateModelConfig(PathParam(path), ModelConfig, io))
           /\ UNCHANGED <<video_subject, result>>

ReqGenerateVideoScript ==
    \E subject \in HttpSubjects :
        LET body == [video_subject |-> subject, language |-> "en",
                     paragraph_number |-> 1, model_id |-> DIALO_MEDIUM]
            req == Request("POST", <<"scripts">>, body)
        IN /\ Serve(req, "generate_video_script", HandleGenerateVideoScript(body))
           /\ UNCHANGED <<video_subject, result>>

ReqGenerateVideoTerms ==
    \E subject \in HttpSubjects :
        LET body == [video_subject |-> subject, video_script |-> <<"Exercise">>,
                     amount |-> 5, model_id |-> DIALO_MEDIUM]
            req == Request("POST", <<"terms">>, body)
        IN /\ Serve(req, "generate_video_terms", HandleGenerateVideoTerms(body))
           /\ UNCHANGED <<video_subject, result>>

ReqGenerateText ==
    \E id \in ReqIds, body \in GenerateBodies : \E pipe \in PipeResults(PromptOf(body)) :
        LET path == <<"models">> \o id \o <<"generate">>
            req == Request("POST", path, body)
        IN /\ IF Resolve("POST", path) # "generate_text" THEN Unrouted(req)
              ELSE Serve(req, "generate_text",
                         HandleGenerateText(PathParam(path), body, pipe))
           /\ UNCHANGED <<video_subject, result>>

\* the process is restarted: the modules are imported again on the same directory
Restart ==
    \E io \in IoOutcomes :
        LET services == ServicesImport(available, file, constructed, io)
        IN /\ model_manager' = services.model_manager
           /\ ctrl_available' = ControllerImport(services)
           /\ model_configs' = services.m.model_configs
           /\ loaded_models' = services.m.loaded_models
           /\ file' = services.m.file
           /\ response' = NoResponse
           /\ trace' = <<>>
           /\ UNCHANGED <<available, constructed, video_subject, result, setup, threads>>

Init ==
    \E avail \in BOOLEAN, io \in IoOutcomes :
        LET services == ServicesImport(avail, FileAbsent, 0, io)
        IN /\ available = services.CUSTOM_MODELS_AVAILABLE
           /\ model_manager = services.model_manager
           /\ ctrl_available = ControllerImport(services)
           /\ model_configs = services.m.model_configs
           /\ loaded_models = services.m.loaded_models
           /\ constructed = services.m.constructed
           /\ file = services.m.file
           /\ response = NoResponse
           /\ trace = <<>>
           /\ video_subject = <<>>
           /\ result = NoResult
           /\ setup = NoSetup
           /\ threads = NoThreads

Next ==
    \/ ReqGetAvailableModels
    \/ ReqGetModelInfo
    \/ ReqLoadModel
    \/ ReqUnloadModel
    \/ ReqUpdateModelConfig
    \/ ReqGenerateVideoScript
    \/ ReqGenerateVideoTerms
    \/ ReqGenerateText
    \/ Restart

Spec == Init /\ [][Next]_vars

(***************************************************************************)
(* The content-generation functions called directly, over all subjects.    *)
(***************************************************************************)
CallGenerateScriptCustom ==
    \E n \in ParagraphNumbers, id \in {DIALO_MEDIUM, GPT2} :
        /\ result = NoResult
        /\ result' = ScriptResult(video_subject, n, id)
        /\ trace' = <<>>
        /\ UNCHANGED <<managerVars, response, video_subject, setup, threads>>

CallGenerateTermsCustom ==
    \E n \in Amounts, id \in {DIALO_MEDIUM, GPT2} :
        /\ result = NoResult
        /\ result' = TermsResult(video_subject, n, id)
        /\ trace' = <<>>
        /\ UNCHANGED <<managerVars, response, video_subject, setup, threads>>

InitText ==
    LET services == ServicesImport(TRUE, FileAbsent, 0, "ok")
    IN /\ available = services.CUSTOM_MODELS_AVAILABLE
       /\ model_manager = services.model_manager
       /\ ctrl_available = ControllerImport(services)
       /\ model_configs = services.m.model_configs
       /\ loaded_models = services.m.loaded_models
       /\ constructed = services.m.constructed
       /\ file = services.m.file
       /\ response = NoResponse
       /\ trace = <<>>
       /\ video_subject \in Subjects
       /\ result = NoResult
       /\ setup = NoSetup
       /\ threads = NoThreads

NextText == CallGenerateScriptCustom \/ CallGenerateTermsCustom

SpecText == InitText /\ [][NextText]_vars

(***************************************************************************)
(* load_model and unload_model run by worker threads, one statement a step.*)
(***************************************************************************)
\* the controller's load_model handler calls model_manager.load_model(model_id)
ThreadLoadModel(t) ==
    \E id \in ReqIds :
        /\ threads[t].pc = "idle"
        /\ threads' = [threads EXCEPT ![t] = Thread("check_loaded", id, 0, PyNone, FALSE)]
        /\ UNCHANGED <<managerVars, response, trace, video_subject, result, setup>>

\* if model_id in self.loaded_models: return True
ThreadCheckLoaded(t) ==
    /\ threads[t].pc = "check_loaded"
    /\ threads' = [threads EXCEPT ![t] =
                      IF AlreadyLoaded(loaded_models, @.model_id)
                      THEN [@ EXCEPT !.pc = "return", !.ret = PyBool(TRUE)]
                      ELSE [@ EXCEPT !.pc = "check_config"]]
    /\ UNCHANGED <<managerVars, response, trace, video_subject, result, setup>>

\* if model_id not in self.model_configs: return False
ThreadCheckConfig(t) ==
    /\ threads[t].pc = "check_config"
    /\ threads' = [threads EXCEPT ![t] =
                      IF @.model_id \notin DOMAIN model_configs
                      THEN [@ EXCEPT !.pc = "return", !.ret = PyBool(FALSE)]
                      ELSE [@ EXCEPT !.pc = "construct"]]
    /\ UNCHANGED <<managerVars, response, trace, video_subject, result, setup>>

\* the try block up to pipeline(...): a new pipeline object, or the except
\* branch returning False
ThreadConstruct(t) ==
    \E lib \in {"ok", "raises"} :
        /\ threads[t].pc = "construct"
        /\ IF lib = "ok"
           THEN /\ constructed < MaxPipelines
                /\ constructed' = constructed + 1
                /\ threads' = [threads EXCEPT ![t].pc = "store",
                                              ![t].pipe = constructed + 1]
           ELSE /\ constructed' = constructed
                /\ threads' = [threads EXCEPT ![t].pc = "return",
                                              ![t].ret = PyBool(FALSE)]
        /\ UNCHANGED <<available, model_manager, ctrl_available, model_configs,
                       loaded_models, file, response, trace, video_subject, result, setup>>

\* self.loaded_models[model_id] = pipe; return True
ThreadStore(t) ==
    /\ threads[t].pc = "store"
    /\ loaded_models' = (threads[t].model_id :> threads[t].pipe) @@ loaded_models
    /\ threads' = [threads EXCEPT ![t].pc = "return",
                                  ![t].ret = PyBool(TRUE),
                                  ![t].replaced = threads[t].model_id \in DOMAIN loaded_models]
    /\ UNCHANGED <<available, model_manager, ctrl_available, model_configs,
                   constructed, file, response, trace, video_subject, result, setup>>

\* load_model has returned and the handler answers
ThreadReturn(t) ==
    /\ threads[t].pc = "return"
    /\ threads' = [threads EXCEPT ![t] = IdleThread]
    /\ UNCHANGED <<managerVars, response, trace, video_subject, result, setup>>

\* unload_model run by an idle worker thread
ThreadUnloadModel(t) ==
    \E id \in ReqIds :
        /\ threads[t].pc = "idle"
        /\ loaded_models' =
              UnloadModel(Manager(model_configs, loaded_models, constructed, file), id)
                  .m.loaded_models
        /\ UNCHANGED <<available, model_manager, ctrl_available, model_configs,
                       constructed, file, response, trace, video_subject, result,
                       setup, threads>>

InitThreads ==
    \E io \in {"ok"} :
        LET services == ServicesImport(TRUE, FileAbsent, 0, io)
        IN /\ available = services.CUSTOM_MODELS_AVAILABLE
           /\ model_manager = services.model_manager
           /\ ctrl_available = ControllerImport(services)
           /\ model_configs = services.m.model_configs
           /\ loaded_models = services.m.loaded_models
           /\ constructed = services.m.constructed
           /\ file = services.m.file
           /\ response = NoResponse
           /\ trace = <<>>
           /\ video_subject = <<>>
           /\ result = NoResult
           /\ setup = NoSetup
           /\ threads = NoThreads

NextThreads ==
    \E t \in Threads :
        \/ ThreadLoadModel(t)
        \/ ThreadCheckLoaded(t)
        \/ ThreadCheckConfig(t)
        \/ ThreadConstruct(t)
        \/ ThreadStore(t)
        \/ ThreadReturn(t)
        \/ ThreadUnloadModel(t)

SpecThreads == InitThreads /\ [][NextThreads]_vars

(***************************************************************************)
(* Properties.                                                             *)
(***************************************************************************)
\* the call on model_manager the last request made, when it made exactly one
TheCall == trace[1]
Called(fn) == Len(trace) = 1 /\ trace[1].fn = fn

\* C1: generate_script_custom and generate_terms_custom return template text
\* only after a model generation attempt (model_manager.generate_text) for
\* model_id.
C1_TemplateAfterModelAttempt ==
    result.fn \in {"generate_script_custom", "generate_terms_custom"} =>
        \E i \in 1..Len(trace) :
            trace[i].fn = "generate_text" /\ trace[i].model_id = result.model_id

\* C2 as stated: after every add_model call returns, model_configs.json holds
\* the in-memory model_configs, and a manager constructed afterwards on the
\* same directory starts with the same configurations, also when the write
\* failed.
C2_FileHoldsRegistryAfterAddModel ==
    Called("add_model") =>
        /\ file.state = "json"
        /\ JsonLoad(file.text) = model_configs
        /\ \A io \in IoOutcomes :
               NewManager(file, constructed, io).model_configs = model_configs

\* C2 as amended: after an add_model call whose write succeeded the file holds
\* the in-memory model_configs and a manager constructed on it starts with the
\* same configurations; a failed write is swallowed: the registry holds the
\* new configuration and the file is left truncated (json.dump failed) or
\* untouched (open failed).
C2_FileHoldsRegistryWhenWritten ==
    /\ [](Called("add_model") =>
            /\ TheCall.model_id \in DOMAIN model_configs
            /\ model_configs[TheCall.model_id] = ModelConfig
            /\ TheCall.env = "ok" =>
                 /\ file.state = "json"
                 /\ JsonLoad(file.text) = model_configs
                 /\ \A io \in IoOutcomes :
                        NewManager(file, constructed, io).model_configs = model_configs
            /\ TheCall.env = "dump_fails" => file = FileCorrupt)
    /\ [][(Called("add_model")' /\ TheCall'.env = "open_fails") => file' = file]_vars

C2_Witness ==
    /\ Called("add_model")
    /\ TheCall.env = "ok"
    /\ UNKNOWN_ID \in DOMAIN model_configs
    /\ file.state = "json"
    /\ UNKNOWN_ID \in DOMAIN file.text

\* C3: generate_text never raises and changes neither loaded_models nor
\* model_configs; for a model that is not loaded it returns "Error: ..."
\* without calling a pipeline; a raising pipeline gives "Error: <message>";
\* an empty or non-list pipeline result gives "Error: No text generated".
C3_GenerateTextContract ==
    /\ [](Called("generate_text") =>
            /\ ~TheCall.raised
            /\ TheCall.model_id \notin DOMAIN loaded_models =>
                 /\ StartsWith(TheCall.ret, <<"Error:">>)
                 /\ TheCall.env = "not_called"
            /\ TheCall.model_id \in DOMAIN loaded_models => TheCall.env # "not_called"
            /\ TheCall.env = "raises" => TheCall.ret = <<"Error:", "CUDA out of memory">>
            /\ TheCall.env \in {"empty_list", "not_a_list"} =>
                 TheCall.ret = <<"Error:", "No text generated">>)
    /\ [][Called("generate_text")' =>
            (loaded_models' = loaded_models /\ model_configs' = model_configs)]_vars

C3_Witness ==
    /\ Called("generate_text")
    /\ TheCall.model_id \in DOMAIN loaded_models
    /\ TheCall.env = "raises"
    /\ TheCall.ret = <<"Error:", "CUDA out of memory">>

\* C4: when torch/transformers cannot be imported, every custom-models
\* endpoint answers a well-formed request with 503 and makes no call on the
\* registry.
C4_Unavailable503 ==
    (~available /\ response.endpoint # "none" /\ response.status # 422) =>
        (response.status = 503 /\ trace = <<>>)

\* C5: GET /models/{model_id} answers 404 "Model not found" for an id that is
\* not in model_configs, and the model's id, name, description, loaded flag
\* and config for a configured id.
C5_ModelInfoStatus ==
    (available /\ response.endpoint = "get_model_info") =>
        LET id == PathParam(response.request.path) IN
        IF id \notin DOMAIN model_configs
        THEN response.status = 404 /\ response.detail = <<"Model not found">>
        ELSE /\ response.status = 200
             /\ response.data.id = id
             /\ response.data.loaded = (id \in DOMAIN loaded_models)
             /\ response.data.config = model_configs[id]

\* C6: POST /models/{model_id}/load answers 200 when load_model returned True
\* and 400 when it returned False.
C6_LoadPassThrough ==
    (response.endpoint = "load_model" /\ Called("load_model")) =>
        IF TheCall.ret = PyBool(TRUE) THEN response.status = 200
        ELSE response.status = 400

\* C7: POST /models/{model_id}/generate answers 400 without calling the
\* manager when the prompt is missing or empty, 400 with the manager's message
\* when generate_text returned "Error: ...", and 200 with the text otherwise.
C7_GenerateStatus ==
    (available /\ response.endpoint = "generate_text") =>
        IF PromptOf(response.request.body) = <<>>
        THEN response.status = 400 /\ trace = <<>>
        ELSE /\ Called("generate_text")
             /\ IF StartsWith(TheCall.ret, <<"Error:">>)
                THEN response.status = 400 /\ response.detail = TheCall.ret
                ELSE response.status = 200 /\ response.data = TheCall.ret

\* a load request made as the demo makes it: the id in the path, and
\* {"device": "auto"} as body
DemoStyleLoad(id) == Request("POST", <<"models">> \o id \o <<"load">>, DemoLoadBody)

\* C8: a load request made as the demo makes it reaches load_model with the
\* path's model id and is answered 200 when the model loads.
C8_DemoLoadReachesManager ==
    \A id \in ReqIds :
        (available /\ response.request = DemoStyleLoad(id)) =>
            /\ Called("load_model")
            /\ TheCall.model_id = id
            /\ TheCall.ret = PyBool(TRUE) => response.status = 200

\* C9: generate_terms_custom returns exactly `amount` terms for every
\* non-empty video_subject when 1 <= amount <= 15.
C9_ExactlyAmountTerms ==
    (result.fn = "generate_terms_custom" /\ video_subject # <<>> /\ result.n \in 1..15) =>
        Len(result.value) = result.n

\* the template the stated priority gives: case-insensitive keyword matching
HasKeyword(subject, k) == Contains(Lower(subject), W1(k))
StatedTemplate(subject) ==
    IF HasKeyword(subject, "cabin")
       /\ (HasKeyword(subject, "woods") \/ HasKeyword(subject, "forest"))
    THEN "cabin"
    ELSE IF HasKeyword(subject, "lake") THEN "lake"
    ELSE IF HasKeyword(subject, "nature") \/ HasKeyword(subject, "forest")
            \/ HasKeyword(subject, "woods")
    THEN "nature"
    ELSE "generic"

\* C10: both functions choose the template by the stated priority (cabin with
\* woods/forest, then lake, then nature/forest/woods, then generic), the
\* generic script embeds video_subject verbatim, and the two functions put a
\* subject into the same class.
C10_TemplateChoice ==
    /\ result.fn = "generate_script_custom" =>
         /\ result.template = StatedTemplate(video_subject)
         /\ \A i \in 1..Len(result.value) :
               /\ result.value[i].tpl = StatedTemplate(video_subject)
               /\ result.value[i].tpl = "generic" =>
                      result.value[i].subject = video_subject
    /\ result.fn = "generate_terms_custom" =>
         /\ result.template = StatedTemplate(video_subject)
         /\ result.n >= 2 =>
               \E i \in 1..Len(result.value) :
                   result.value[i] = SpecificTerms(video_subject)[1]
                   \/ result.value[i] = SpecificTerms(video_subject)[2]
    /\ ScriptTemplate(video_subject) = TermsTemplate(video_subject)

C10_Witness ==
    /\ result.fn = "generate_script_custom"
    /\ video_subject = <<"Cabin", BLANK, "woods", BLANK, "Lakeside">>
    /\ result.template = "cabin"
    /\ Len(result.value) = 3

\* the functions a finished run of main called
MainCalled(fn) == \E i \in 1..Len(setup.called) : setup.called[i] = fn

\* C11: when --config-only or --skip-download is passed, in any combination
\* with the other flags, main does not call download_popular_models; the
\* directory, model_configs.json and config.toml steps run in every case.
C11_SkipFlagsPreventDownload ==
    setup.pc = "returned" =>
        /\ (setup.args.config_only \/ setup.args.skip_download) =>
              ~MainCalled("download_popular_models")
        /\ MainCalled("create_models_directory")
        /\ MainCalled("create_model_configs")
        /\ MainCalled("update_config_toml")

\* C12: load_model is idempotent: called for a model_id that is already in
\* loaded_models it returns True, constructs no tokenizer/model/pipeline, and
\* leaves loaded_models (with the pipeline stored for model_id) and
\* model_configs unchanged.
C12_LoadModelIdempotent ==
    [][(Called("load_model")' /\ TheCall'.model_id \in DOMAIN loaded_models) =>
          /\ TheCall'.ret = PyBool(TRUE)
          /\ TheCall'.env = "not_called"
          /\ constructed' = constructed
          /\ loaded_models' = loaded_models
          /\ model_configs' = model_configs]_vars

\* a load_model call that found its model loaded: nothing was constructed
C12_Witness ==
    /\ Called("load_model")
    /\ TheCall.env = "not_called"
    /\ TheCall.ret = PyBool(TRUE)
    /\ TheCall.model_id \in DOMAIN loaded_models
    /\ loaded_models[TheCall.model_id] < constructed

\* C13 as stated: when several load requests for the same model_id run
\* concurrently, at most one tokenizer/model/pipeline is constructed for that
\* model_id while it stays loaded, and a pipeline stored in loaded_models is
\* never replaced by another one without an intervening unload_model.
C13_OnePipelineWhileLoaded ==
    \A t \in Threads :
        /\ ~threads[t].replaced
        /\ (threads[t].pc = "store" /\ threads[t].model_id \in DOMAIN loaded_models) =>
              threads[t].pipe = loaded_models[threads[t].model_id]

\* C13 as amended: load requests are not coordinated.  A load request whose
\* own check finds model_id in loaded_models returns True and constructs and
\* stores nothing; one whose check finds it absent goes on to construct its
\* own pipeline; and a pipeline stored in loaded_models is replaced without
\* an intervening unload_model only by the store of a load request for that
\* model_id that was already past its check.
C13_ReplacedOnlyByOverlappingLoad ==
    /\ [][\A t \in Threads :
            (threads[t].pc = "check_loaded" /\ threads'[t] # threads[t]) =>
                IF threads[t].model_id \in DOMAIN loaded_models
                THEN /\ threads'[t].pc = "return"
                     /\ threads'[t].ret = PyBool(TRUE)
                     /\ constructed' = constructed
                     /\ loaded_models' = loaded_models
                ELSE threads'[t].pc = "check_config"]_vars
    /\ [][\A id \in DOMAIN loaded_models :
            (id \in DOMAIN loaded_models' /\ loaded_models'[id] # loaded_models[id]) =>
                \E t \in Threads :
                    /\ threads[t].pc = "store"
                    /\ threads[t].model_id = id
                    /\ threads[t].pipe = loaded_models'[id]
                    /\ threads'[t].pc = "return"]_vars

\* two overlapping load requests: the store of the second replaced the
\* pipeline the first had stored
C13_Witness ==
    \E t \in Threads :
        /\ threads[t].replaced
        /\ threads[t].pc = "return"
        /\ loaded_models[threads[t].model_id] = threads[t].pipe
        /\ constructed >= 2

====
